---------------------------- MODULE Spec2Model ----------------------------
(***************************************************************************)
(* Put option pricing of "Put-Call Parity of Vanilla European Options",    *)
(* and the notebook that copies PoetryDB into PostgreSQL.                  *)
(*                                                                         *)
(* Three specifications share the module: Spec is one call of a pricing    *)
(* function, SpecCallers is several calls whose lines interleave, and      *)
(* SpecNotebook is the PoetryDB notebook run cell by cell.                 *)
(*                                                                         *)
(* The pricing notebook defines put_option_price(S, K, T, r, sigma) and    *)
(* put_option_price_div(S, K, T, r, sigma, q) over numpy/scipy doubles,    *)
(* and their SymPy twins put_option_price_sym, put_option_price_div_sym.   *)
(* A double is modelled as a record in sign-magnitude form, like IEEE 754: *)
(*   [k |-> "fin", neg |-> sign bit, v |-> magnitude in units of 1/One]    *)
(*   [k |-> "inf", neg |-> sign bit, v |-> 0]                              *)
(*   [k |-> "nan", neg |-> FALSE,    v |-> 0]                              *)
(* so that the zero has a sign, x/0 is an infinity or a NaN and NaN        *)
(* propagates, as numpy computes them (numpy warns, it does not raise).    *)
(* Finite arithmetic is fixed-point with six decimals, rounded to nearest; *)
(* ln, exp, sqrt and the normal CDF are evaluated by series to that        *)
(* resolution.  All intermediate integers stay below 2^31.                 *)
(***************************************************************************)
EXTENDS Integers, Sequences, FiniteSets, TLC

(***************************************************************************)
(* Fixed-point kernel on integers (units of 1/One).                        *)
(***************************************************************************)
Base == 1000
One == Base * Base

Abs(n) == IF n < 0 THEN -n ELSE n

\* n / d rounded to nearest, for n >= 0 and d > 0
RDiv(n, d) == (n + (d \div 2)) \div d

\* a * b / One for magnitudes a, b < 10^9, by three-digit limbs
FxMul(a, b) ==
    LET a1 == a \div Base
        a0 == a % Base
        b1 == b \div Base
        b0 == b % Base
    IN  a1 * b1 + RDiv(a1 * b0 + a0 * b1 + RDiv(a0 * b0, Base), Base)

RECURSIVE DivDigits(_, _, _)
\* the decimal digits of r / b below `scale`, for 0 <= r < b, last one rounded
DivDigits(r, b, scale) ==
    IF scale = 1
    THEN (IF 2 * r >= b THEN 1 ELSE 0)
    ELSE LET t == 10 * r
             s == scale \div 10
         IN  (t \div b) * s + DivDigits(t % b, b, s)

\* a * One / b for magnitudes a >= 0, 0 < b < 2 * 10^8, by long division
FxDiv(a, b) == (a \div b) * One + DivDigits(a % b, b, One)

SMul(a, b) ==
    IF (a < 0) = (b < 0) THEN FxMul(Abs(a), Abs(b)) ELSE -FxMul(Abs(a), Abs(b))

SDiv(a, b) ==
    IF (a < 0) = (b < 0) THEN FxDiv(Abs(a), Abs(b)) ELSE -FxDiv(Abs(a), Abs(b))

\* a / n for a signed a and a positive integer n (not scaled)
SDivInt(a, n) == IF a < 0 THEN -RDiv(-a, n) ELSE RDiv(a, n)

(***************************************************************************)
(* exp: Taylor series on [-1, 1], e^(x+1) = e * e^x outside.               *)
(***************************************************************************)
ExpOrder == 14

RECURSIVE ExpTerms(_, _, _)
ExpTerms(x, t, n) ==
    IF n > ExpOrder
    THEN 0
    ELSE LET tn == SDivInt(SMul(t, x), n)
         IN  tn + ExpTerms(x, tn, n + 1)

ExpSeries(x) == One + ExpTerms(x, One, 1)

RECURSIVE FxExp(_)
FxExp(x) ==
    IF x > One THEN SMul(ExpSeries(One), FxExp(x - One))
    ELSE IF x < -One THEN SMul(ExpSeries(-One), FxExp(x + One))
    ELSE ExpSeries(x)

(***************************************************************************)
(* ln: ln x = 2 atanh((x-1)/(x+1)) on [3/4, 3/2], ln 2x = ln 2 + ln x      *)
(* outside.                                                                *)
(***************************************************************************)
AtanhOrder == 12

RECURSIVE AtanhTerms(_, _, _)
AtanhTerms(z2, t, n) ==
    IF n > AtanhOrder
    THEN 0
    ELSE LET tn == SMul(t, z2)
         IN  SDivInt(tn, 2 * n + 1) + AtanhTerms(z2, tn, n + 1)

Atanh2(z) == 2 * (z + AtanhTerms(SMul(z, z), z, 1))

Ln2 == Atanh2(SDiv(One, 3 * One))

RECURSIVE FxLn(_)
\* for x > 0
FxLn(x) ==
    IF 2 * x > 3 * One THEN Ln2 + FxLn(RDiv(x, 2))
    ELSE IF 4 * x < 3 * One THEN FxLn(2 * x) - Ln2
    ELSE Atanh2(SDiv(x - One, x + One))

(***************************************************************************)
(* sqrt: Newton's iteration from max(t, 1).                                *)
(***************************************************************************)
SqrtIters == 12

RECURSIVE Newton(_, _, _)
Newton(t, s, n) ==
    IF n = 0 THEN s ELSE Newton(t, RDiv(s + FxDiv(t, s), 2), n - 1)

\* for t >= 0
FxSqrt(t) == IF t = 0 THEN 0 ELSE Newton(t, IF t > One THEN t ELSE One, SqrtIters)

(***************************************************************************)
(* Standard normal CDF.  Up to SeriesMax:                                  *)
(*   Phi(x) = 1/2 + pdf(x) * (x + x^3/3 + x^5/(3*5) + ...),                *)
(* above it the upper tail is pdf(x) / (x + 1/(x + 2/(x + ...))), and from *)
(* TailMax on the tail is below half a unit.                               *)
(***************************************************************************)
InvSqrt2Pi == 398942
CdfOrder == 20
MillsDepth == 16
SeriesMax == 3 * (One \div 2)
TailMax == 6 * One

FxPdf(x) == SMul(InvSqrt2Pi, FxExp(-SDivInt(SMul(x, x), 2)))

RECURSIVE CdfTerms(_, _, _)
CdfTerms(x2, t, n) ==
    IF n > CdfOrder
    THEN 0
    ELSE LET tn == SDivInt(SMul(t, x2), 2 * n + 1)
         IN  tn + CdfTerms(x2, tn, n + 1)

RECURSIVE MillsCF(_, _, _)
\* x + 1/(x + 2/(x + ... + k/c)), built from the innermost quotient outwards
MillsCF(x, c, k) ==
    IF k > 0 /\ c > 0 THEN MillsCF(x, x + FxDiv(k * One, c), k - 1) ELSE c

\* the upper tail 1 - Phi(a) for a >= 0
FxTail(a) ==
    IF a >= TailMax THEN 0
    ELSE IF a > SeriesMax THEN FxDiv(FxPdf(a), MillsCF(a, a, MillsDepth))
    ELSE One - ((One \div 2) + SMul(FxPdf(a), a + CdfTerms(SMul(a, a), a, 1)))

FxCdf(x) == IF x < 0 THEN FxTail(-x) ELSE One - FxTail(x)

(***************************************************************************)
(* Doubles.                                                                *)
(***************************************************************************)
Fin(n) == [k |-> "fin", neg |-> n < 0, v |-> Abs(n)]
NaN == [k |-> "nan", neg |-> FALSE, v |-> 0]
Inf(neg) == [k |-> "inf", neg |-> neg, v |-> 0]
Zero(neg) == [k |-> "fin", neg |-> neg, v |-> 0]

IsNaN(x) == x.k = "nan"
IsInf(x) == x.k = "inf"
IsFin(x) == x.k = "fin"
IsZero(x) == x.k = "fin" /\ x.v = 0

\* the signed value of a finite double, in units of 1/One
Val(x) == IF x.neg THEN -x.v ELSE x.v

\* unary minus flips the sign bit (of zeros and infinities too)
fneg(x) == IF IsNaN(x) THEN NaN ELSE [x EXCEPT !.neg = ~x.neg]

\* x + y: inf + (-inf) is NaN; an exact zero sum is -0 only for (-0) + (-0)
fadd(x, y) ==
    IF IsNaN(x) \/ IsNaN(y) THEN NaN
    ELSE IF IsInf(x) /\ IsInf(y) THEN (IF x.neg = y.neg THEN x ELSE NaN)
    ELSE IF IsInf(x) THEN x
    ELSE IF IsInf(y) THEN y
    ELSE LET s == Val(x) + Val(y)
         IN  IF s = 0 THEN Zero(x.neg /\ y.neg) ELSE Fin(s)

fsub(x, y) == fadd(x, fneg(y))

\* x * y: inf * 0 is NaN; the sign is the exclusive or of the signs
fmul(x, y) ==
    IF IsNaN(x) \/ IsNaN(y) THEN NaN
    ELSE IF IsInf(x) \/ IsInf(y)
         THEN (IF IsZero(x) \/ IsZero(y) THEN NaN ELSE Inf(x.neg # y.neg))
    ELSE [k |-> "fin", neg |-> x.neg # y.neg, v |-> FxMul(x.v, y.v)]

\* numpy's x / y: 0/0 and inf/inf are NaN, x/0 is a signed infinity; it
\* warns and returns, it does not raise
fdiv(x, y) ==
    IF IsNaN(x) \/ IsNaN(y) THEN NaN
    ELSE IF IsInf(x) THEN (IF IsInf(y) THEN NaN ELSE Inf(x.neg # y.neg))
    ELSE IF IsInf(y) THEN Zero(x.neg # y.neg)
    ELSE IF IsZero(y) THEN (IF IsZero(x) THEN NaN ELSE Inf(x.neg # y.neg))
    ELSE [k |-> "fin", neg |-> x.neg # y.neg, v |-> FxDiv(x.v, y.v)]

\* np.log: log(0) = -inf, log of a negative number is NaN
np_log(x) ==
    IF IsNaN(x) THEN NaN
    ELSE IF IsZero(x) THEN Inf(TRUE)
    ELSE IF x.neg THEN NaN
    ELSE IF IsInf(x) THEN x
    ELSE Fin(FxLn(x.v))

\* np.sqrt: sqrt of a negative number is NaN, sqrt(-0.0) = -0.0
np_sqrt(x) ==
    IF IsNaN(x) THEN NaN
    ELSE IF IsZero(x) THEN x
    ELSE IF x.neg THEN NaN
    ELSE IF IsInf(x) THEN x
    ELSE Fin(FxSqrt(x.v))

\* np.exp: exp(-inf) = 0
np_exp(x) ==
    IF IsNaN(x) THEN NaN
    ELSE IF IsInf(x) THEN (IF x.neg THEN Zero(FALSE) ELSE x)
    ELSE Fin(FxExp(Val(x)))

\* si.stats.norm.cdf(x, 0.0, 1.0): cdf(-inf) = 0, cdf(inf) = 1, cdf(nan) = nan
norm_cdf(x) ==
    IF IsNaN(x) THEN NaN
    ELSE IF IsInf(x) THEN (IF x.neg THEN Zero(FALSE) ELSE Fin(One))
    ELSE Fin(FxCdf(Val(x)))

\* the literal 0.5
Half == Fin(One \div 2)

\* sigma ** 2
pow2(x) == fmul(x, x)

\* float(S) of a Python number: the same value as a double
float(S) == S

(***************************************************************************)
(* What a call gives its caller: a returned double or a raised exception.  *)
(***************************************************************************)
NoValue == [k |-> "none", neg |-> FALSE, v |-> 0]
Return(x) == [kind |-> "return", exc |-> "", val |-> x]
Raise(e) == [kind |-> "raise", exc |-> e, val |-> NoValue]
Pending == [kind |-> "pending", exc |-> "", val |-> NoValue]

(***************************************************************************)
(* put_option_price(S, K, T, r, sigma)                                     *)
(***************************************************************************)
\* d1 = (np.log(S / K) + (r + 0.5 * sigma ** 2) * T) / (sigma * np.sqrt(T))
put_d1(S, K, T, r, sigma) ==
    fdiv(fadd(np_log(fdiv(S, K)), fmul(fadd(r, fmul(Half, pow2(sigma))), T)),
         fmul(sigma, np_sqrt(T)))

\* d2 = (np.log(S / K) + (r - 0.5 * sigma ** 2) * T) / (sigma * np.sqrt(T))
put_d2(S, K, T, r, sigma) ==
    fdiv(fadd(np_log(fdiv(S, K)), fmul(fsub(r, fmul(Half, pow2(sigma))), T)),
         fmul(sigma, np_sqrt(T)))

\* a slip: the strike leg without its discount factor e^{-rT}
put_option_price_undiscounted(S, K, T, r, sigma) ==
    LET S1 == float(S)
        d1 == put_d1(S1, K, T, r, sigma)
        d2 == put_d2(S1, K, T, r, sigma)
        put_price == fsub(fmul(K, norm_cdf(fneg(d2))), fmul(S1, norm_cdf(fneg(d1))))
    IN  IF IsZero(K) THEN Raise("ZeroDivisionError") ELSE Return(put_price)

\* a slip: the spot leg with N(d1) where N(-d1) belongs
put_option_price_sign(S, K, T, r, sigma) ==
    LET S1 == float(S)
        d1 == put_d1(S1, K, T, r, sigma)
        d2 == put_d2(S1, K, T, r, sigma)
        put_price ==
            fsub(fmul(fmul(K, np_exp(fmul(fneg(r), T))), norm_cdf(fneg(d2))),
                 fmul(S1, norm_cdf(d1)))
    IN  IF IsZero(K) THEN Raise("ZeroDivisionError") ELSE Return(put_price)

\* S / K divides two Python numbers: a zero K raises ZeroDivisionError
\* before anything else is computed.  There is no other check of the inputs.
put_option_price(S, K, T, r, sigma) ==
    LET S1 == float(S)
        d1 == put_d1(S1, K, T, r, sigma)
        d2 == put_d2(S1, K, T, r, sigma)
        put_price ==
            fsub(fmul(fmul(K, np_exp(fmul(fneg(r), T))), norm_cdf(fneg(d2))),
                 fmul(S1, norm_cdf(fneg(d1))))
    IN  IF IsZero(K) THEN Raise("ZeroDivisionError") ELSE Return(put_price)

(***************************************************************************)
(* put_option_price_div(S, K, T, r, sigma, q)                              *)
(***************************************************************************)
\* d1 as the dividend function computes it: q does not occur in it
div_d1(S, K, T, r, sigma, q) ==
    fdiv(fadd(np_log(fdiv(S, K)), fmul(fadd(r, fmul(Half, pow2(sigma))), T)),
         fmul(sigma, np_sqrt(T)))

\* d2 as the dividend function computes it: q does not occur in it
div_d2(S, K, T, r, sigma, q) ==
    fdiv(fadd(np_log(fdiv(S, K)), fmul(fsub(r, fmul(Half, pow2(sigma))), T)),
         fmul(sigma, np_sqrt(T)))

\* a slip: the spot leg discounted at r instead of q
put_option_price_div_rate(S, K, T, r, sigma, q) ==
    LET S1 == float(S)
        d1 == div_d1(S1, K, T, r, sigma, q)
        d2 == div_d2(S1, K, T, r, sigma, q)
        put_price_dividend ==
            fsub(fmul(fmul(K, np_exp(fmul(fneg(r), T))), norm_cdf(fneg(d2))),
                 fmul(fmul(S1, np_exp(fmul(fneg(r), T))), norm_cdf(fneg(d1))))
    IN  IF IsZero(K) THEN Raise("ZeroDivisionError")
        ELSE Return(put_price_dividend)

\* a slip: the spot leg with N(d1) where N(-d1) belongs
put_option_price_div_sign(S, K, T, r, sigma, q) ==
    LET S1 == float(S)
        d1 == div_d1(S1, K, T, r, sigma, q)
        d2 == div_d2(S1, K, T, r, sigma, q)
        put_price_dividend ==
            fsub(fmul(fmul(K, np_exp(fmul(fneg(r), T))), norm_cdf(fneg(d2))),
                 fmul(fmul(S1, np_exp(fmul(fneg(q), T))), norm_cdf(d1)))
    IN  IF IsZero(K) THEN Raise("ZeroDivisionError")
        ELSE Return(put_price_dividend)

put_option_price_div(S, K, T, r, sigma, q) ==
    LET S1 == float(S)
        d1 == div_d1(S1, K, T, r, sigma, q)
        d2 == div_d2(S1, K, T, r, sigma, q)
        put_price_dividend ==
            fsub(fmul(fmul(K, np_exp(fmul(fneg(r), T))), norm_cdf(fneg(d2))),
                 fmul(fmul(S1, np_exp(fmul(fneg(q), T))), norm_cdf(fneg(d1))))
    IN  IF IsZero(K) THEN Raise("ZeroDivisionError")
        ELSE Return(put_price_dividend)

(***************************************************************************)
(* The Black-Scholes call of the notebook's derivation, with d1 and d2 as  *)
(* the functions above compute them.                                       *)
(***************************************************************************)
\* C(S,t) = S N(d1) - K e^{-r(T-t)} N(d2), at t = 0
call_price(S, K, T, r, sigma) ==
    fsub(fmul(S, norm_cdf(put_d1(S, K, T, r, sigma))),
         fmul(fmul(K, np_exp(fmul(fneg(r), T))),
              norm_cdf(put_d2(S, K, T, r, sigma))))

\* C(S,t) = S e^{-q(T-t)} N(d1) - K e^{-r(T-t)} N(d2), at t = 0
call_price_div(S, K, T, r, sigma, q) ==
    fsub(fmul(fmul(S, np_exp(fmul(fneg(q), T))),
              norm_cdf(div_d1(S, K, T, r, sigma, q))),
         fmul(fmul(K, np_exp(fmul(fneg(r), T))),
              norm_cdf(div_d2(S, K, T, r, sigma, q))))

(***************************************************************************)
(* SymPy.  On real numbers its functions evaluate to a Float, the same     *)
(* double arithmetic as above.  Where numpy gives nan or an infinity SymPy *)
(* gives a value that is not a real number: the logarithm of a negative    *)
(* number and the root of a negative number are complex, a division by     *)
(* zero is zoo (or nan), and every operation on such a value gives one.    *)
(***************************************************************************)
NonReal == [k |-> "nonreal", neg |-> FALSE, v |-> 0]
IsReal(x) == IsFin(x)

sy_neg(x) == IF IsReal(x) THEN fneg(x) ELSE NonReal
sy_add(x, y) == IF IsReal(x) /\ IsReal(y) THEN fadd(x, y) ELSE NonReal
sy_sub(x, y) == sy_add(x, sy_neg(y))
sy_mul(x, y) == IF IsReal(x) /\ IsReal(y) THEN fmul(x, y) ELSE NonReal
sy_div(x, y) ==
    IF IsReal(x) /\ IsReal(y) /\ ~IsZero(y) THEN fdiv(x, y) ELSE NonReal

\* sy.ln
sy_ln(x) == IF IsReal(x) /\ ~x.neg /\ x.v > 0 THEN Fin(FxLn(x.v)) ELSE NonReal

\* sy.sqrt
sy_sqrt(x) ==
    IF IsZero(x) THEN Zero(FALSE)
    ELSE IF IsReal(x) /\ ~x.neg THEN Fin(FxSqrt(x.v)) ELSE NonReal

\* sy.exp
sy_exp(x) == IF IsReal(x) THEN Fin(FxExp(Val(x))) ELSE NonReal

\* N = systats.Normal(0.0, 1.0); N.cdf(x) = (1 + erf(x / sqrt(2))) / 2
Normal_cdf(x) == IF IsReal(x) THEN Fin(FxCdf(Val(x))) ELSE NonReal

(***************************************************************************)
(* put_option_price_sym(S, K, T, r, sigma)                                 *)
(***************************************************************************)
\* d1 = (sy.ln(S / K) + (r + 0.5 * sigma ** 2) * T) / (sigma * sy.sqrt(T))
sym_d1(S, K, T, r, sigma) ==
    sy_div(sy_add(sy_ln(fdiv(S, K)), fmul(fadd(r, fmul(Half, pow2(sigma))), T)),
           sy_mul(sigma, sy_sqrt(T)))

\* a slip: d2 with the sign of d1
sym_d2_plus(S, K, T, r, sigma) ==
    sy_div(sy_add(sy_ln(fdiv(S, K)), fmul(fadd(r, fmul(Half, pow2(sigma))), T)),
           sy_mul(sigma, sy_sqrt(T)))

\* d2 = (sy.ln(S / K) + (r - 0.5 * sigma ** 2) * T) / (sigma * sy.sqrt(T))
sym_d2(S, K, T, r, sigma) ==
    sy_div(sy_add(sy_ln(fdiv(S, K)), fmul(fsub(r, fmul(Half, pow2(sigma))), T)),
           sy_mul(sigma, sy_sqrt(T)))

\* a slip: the strike leg with N.cdf(-d1) where N.cdf(-d2) belongs
put_option_price_sym_d1(S, K, T, r, sigma) ==
    LET S1 == float(S)
        d1 == sym_d1(S1, K, T, r, sigma)
        put_price ==
            sy_sub(sy_mul(sy_mul(K, sy_exp(fmul(fneg(r), T))), Normal_cdf(sy_neg(d1))),
                   sy_mul(S1, Normal_cdf(sy_neg(d1))))
    IN  IF IsZero(K) THEN Raise("ZeroDivisionError") ELSE Return(put_price)

\* put_price = K * sy.exp(-r * T) * N.cdf(-d2) - S * N.cdf(-d1)
put_option_price_sym(S, K, T, r, sigma) ==
    LET S1 == float(S)
        d1 == sym_d1(S1, K, T, r, sigma)
        d2 == sym_d2(S1, K, T, r, sigma)
        put_price ==
            sy_sub(sy_mul(sy_mul(K, sy_exp(fmul(fneg(r), T))), Normal_cdf(sy_neg(d2))),
                   sy_mul(S1, Normal_cdf(sy_neg(d1))))
    IN  IF IsZero(K) THEN Raise("ZeroDivisionError") ELSE Return(put_price)

(***************************************************************************)
(* put_option_price_div_sym(S, K, T, r, sigma, q)                          *)
(***************************************************************************)
div_sym_d1(S, K, T, r, sigma, q) ==
    sy_div(sy_add(sy_ln(fdiv(S, K)), fmul(fadd(r, fmul(Half, pow2(sigma))), T)),
           sy_mul(sigma, sy_sqrt(T)))

div_sym_d2(S, K, T, r, sigma, q) ==
    sy_div(sy_add(sy_ln(fdiv(S, K)), fmul(fsub(r, fmul(Half, pow2(sigma))), T)),
           sy_mul(sigma, sy_sqrt(T)))

\* put_price_dividend =
\*     K * sy.exp(-r * T) * N.cdf(-d2) - S * sy.exp(-q * T) * N.cdf(-d1)
put_option_price_div_sym(S, K, T, r, sigma, q) ==
    LET S1 == float(S)
        d1 == div_sym_d1(S1, K, T, r, sigma, q)
        d2 == div_sym_d2(S1, K, T, r, sigma, q)
        put_price_dividend ==
            sy_sub(sy_mul(sy_mul(K, sy_exp(fmul(fneg(r), T))), Normal_cdf(sy_neg(d2))),
                   sy_mul(sy_mul(S1, sy_exp(fmul(fneg(q), T))), Normal_cdf(sy_neg(d1))))
    IN  IF IsZero(K) THEN Raise("ZeroDivisionError")
        ELSE Return(put_price_dividend)

(***************************************************************************)
(* The calls.  A caller passes five or six positional numbers; Python      *)
(* binds them to the parameters of the def, none of which has a default,   *)
(* and raises TypeError when the count differs.                            *)
(***************************************************************************)
MaxSpot == 2
MaxStrike == 2
MaxTenor == 2

Spots == {-5 * One, 0} \cup {50 * i * One : i \in 1..MaxSpot}
Strikes == {-60 * One, 0} \cup {(20 + 40 * i) * One : i \in 1..MaxStrike}
\* tenors of a hundredth and a ten-thousandth of a year: the approach to expiry
ShortTenors == {One \div 100, One \div 10000}
Tenors == {-One, 0} \cup ShortTenors \cup {i * (One \div 2) : i \in 1..MaxTenor}
Rates == {3 * (One \div 100), 5 * (One \div 100)}
Vols == {-(One \div 5), 0, One \div 5, One \div 4}
Yields == {-(One \div 5), 0, 2 * (One \div 100), 5 * (One \div 100)}

Argv5 == {<<S, K, T, r, sigma>> :
            S \in Spots, K \in Strikes, T \in Tenors, r \in Rates, sigma \in Vols}
Argv6 == {a \o <<q>> : a \in Argv5, q \in Yields}

Functions ==
    {"put_option_price", "put_option_price_div",
     "put_option_price_sym", "put_option_price_div_sym"}

VARIABLES fn, argv, outcome
pricing == <<fn, argv, outcome>>

\* calls in flight at the same time, one per caller: what each caller asked
\* for, the line it has reached, the locals of each frame, what it got back
VARIABLES calls, pcs, frames, results
callers == <<calls, pcs, frames, results>>

\* the notebook that copies PoetryDB into PostgreSQL: the remote data, the next
\* code cell, the names of the kernel, the requests sent, the files written,
\* the database, and what the query cells displayed
VARIABLES api, pc, kernel, requests, files, db, out
notebook == <<api, pc, kernel, requests, files, db, out>>

vars == <<pricing, callers, notebook>>

\* no notebook
NoNotebook ==
    /\ api = <<>> /\ pc = "" /\ kernel = <<>> /\ requests = <<>>
    /\ files = <<>> /\ db = <<>> /\ out = <<>>

\* no caller
NoCallers == calls = <<>> /\ pcs = <<>> /\ frames = <<>> /\ results = <<>>

\* a Python number of the grid as a double
Num(n) == Fin(n)

Init ==
    /\ fn \in Functions
    /\ argv \in Argv5 \cup Argv6
    /\ outcome = Pending
    /\ NoCallers
    /\ NoNotebook

call_put_option_price ==
    /\ fn = "put_option_price"
    /\ outcome = Pending
    /\ outcome' =
         IF Len(argv) # 5 THEN Raise("TypeError")
         ELSE put_option_price(Num(argv[1]), Num(argv[2]), Num(argv[3]),
                               Num(argv[4]), Num(argv[5]))
    /\ UNCHANGED <<fn, argv, callers, notebook>>

call_put_option_price_div ==
    /\ fn = "put_option_price_div"
    /\ outcome = Pending
    /\ outcome' =
         IF Len(argv) # 6 THEN Raise("TypeError")
         ELSE put_option_price_div(Num(argv[1]), Num(argv[2]), Num(argv[3]),
                                   Num(argv[4]), Num(argv[5]), Num(argv[6]))
    /\ UNCHANGED <<fn, argv, callers, notebook>>

call_put_option_price_sym ==
    /\ fn = "put_option_price_sym"
    /\ outcome = Pending
    /\ outcome' =
         IF Len(argv) # 5 THEN Raise("TypeError")
         ELSE put_option_price_sym(Num(argv[1]), Num(argv[2]), Num(argv[3]),
                                   Num(argv[4]), Num(argv[5]))
    /\ UNCHANGED <<fn, argv, callers, notebook>>

call_put_option_price_div_sym ==
    /\ fn = "put_option_price_div_sym"
    /\ outcome = Pending
    /\ outcome' =
         IF Len(argv) # 6 THEN Raise("TypeError")
         ELSE put_option_price_div_sym(Num(argv[1]), Num(argv[2]), Num(argv[3]),
                                       Num(argv[4]), Num(argv[5]), Num(argv[6]))
    /\ UNCHANGED <<fn, argv, callers, notebook>>

Next ==
    \/ call_put_option_price
    \/ call_put_option_price_div
    \/ call_put_option_price_sym
    \/ call_put_option_price_div_sym

Spec == Init /\ [][Next]_vars

(***************************************************************************)
(* Calls in flight at the same time.  Each call runs the body of its       *)
(* function line by line in a frame of its own: the parameters and d1, d2, *)
(* put_price are locals of the def, and the functions name no global.      *)
(* The lines of different calls interleave in any order.                   *)
(***************************************************************************)
Callers == {"a", "b", "c"}

\* what the callers ask for: the two worked examples and a zero strike
Requests ==
    { [fn |-> "put_option_price",
       argv |-> <<100 * One, 100 * One, One, 5 * (One \div 100), One \div 5>>],
      [fn |-> "put_option_price",
       argv |-> <<50 * One, 60 * One, One \div 2, 3 * (One \div 100), One \div 4>>],
      [fn |-> "put_option_price_div",
       argv |-> <<50 * One, 60 * One, One \div 2, 3 * (One \div 100), One \div 4,
                  2 * (One \div 100)>>],
      [fn |-> "put_option_price_div",
       argv |-> <<100 * One, 0, One, 5 * (One \div 100), One \div 5, 0>>] }

\* all callers in one frame, as if the locals were globals of the module
shared_frame(c) == "a"

\* the frame Python creates for the call of caller c
frame_of(c) == c

NoFrame ==
    [S |-> NoValue, K |-> NoValue, T |-> NoValue, r |-> NoValue, sigma |-> NoValue,
     q |-> NoValue, d1 |-> NoValue, d2 |-> NoValue, put_price |-> NoValue]

\* put_price = K * np.exp(-r * T) * cdf(-d2) - S * cdf(-d1)
put_price_of(f) ==
    fsub(fmul(fmul(f.K, np_exp(fmul(fneg(f.r), f.T))), norm_cdf(fneg(f.d2))),
         fmul(f.S, norm_cdf(fneg(f.d1))))

\* put_price_dividend = K * np.exp(-r * T) * cdf(-d2) - S * np.exp(-q * T) * cdf(-d1)
put_price_dividend_of(f) ==
    fsub(fmul(fmul(f.K, np_exp(fmul(fneg(f.r), f.T))), norm_cdf(fneg(f.d2))),
         fmul(fmul(f.S, np_exp(fmul(fneg(f.q), f.T))), norm_cdf(fneg(f.d1))))

InitCallers ==
    /\ fn = "" /\ argv = <<>> /\ outcome = Pending
    /\ NoNotebook
    /\ calls \in [Callers -> Requests]
    /\ pcs = [c \in Callers |-> "call"]
    /\ frames = [c \in Callers |-> NoFrame]
    /\ results = [c \in Callers |-> Pending]

\* the call binds the arguments to the parameters; S = float(S)
bind_args(c) ==
    /\ pcs[c] = "call"
    /\ frames' = [frames EXCEPT ![frame_of(c)] =
            [NoFrame EXCEPT !.S = float(Num(calls[c].argv[1])),
                            !.K = Num(calls[c].argv[2]),
                            !.T = Num(calls[c].argv[3]),
                            !.r = Num(calls[c].argv[4]),
                            !.sigma = Num(calls[c].argv[5]),
                            !.q = IF Len(calls[c].argv) = 6
                                  THEN Num(calls[c].argv[6]) ELSE NoValue]]
    /\ pcs' = [pcs EXCEPT ![c] = "d1"]
    /\ UNCHANGED <<calls, results, pricing, notebook>>

\* d1 = ...: S / K raises ZeroDivisionError for a zero K
assign_d1(c) ==
    /\ pcs[c] = "d1"
    /\ LET f == frames[frame_of(c)]
       IN  IF IsZero(f.K)
           THEN /\ results' = [results EXCEPT ![c] = Raise("ZeroDivisionError")]
                /\ pcs' = [pcs EXCEPT ![c] = "done"]
                /\ UNCHANGED frames
           ELSE /\ frames' = [frames EXCEPT ![frame_of(c)].d1 =
                      IF calls[c].fn = "put_option_price"
                      THEN put_d1(f.S, f.K, f.T, f.r, f.sigma)
                      ELSE div_d1(f.S, f.K, f.T, f.r, f.sigma, f.q)]
                /\ pcs' = [pcs EXCEPT ![c] = "d2"]
                /\ UNCHANGED results
    /\ UNCHANGED <<calls, pricing, notebook>>

\* d2 = ...
assign_d2(c) ==
    /\ pcs[c] = "d2"
    /\ LET f == frames[frame_of(c)]
       IN  frames' = [frames EXCEPT ![frame_of(c)].d2 =
               IF calls[c].fn = "put_option_price"
               THEN put_d2(f.S, f.K, f.T, f.r, f.sigma)
               ELSE div_d2(f.S, f.K, f.T, f.r, f.sigma, f.q)]
    /\ pcs' = [pcs EXCEPT ![c] = "put_price"]
    /\ UNCHANGED <<calls, results, pricing, notebook>>

\* put_price = ... / put_price_dividend = ...
assign_put_price(c) ==
    /\ pcs[c] = "put_price"
    /\ LET f == frames[frame_of(c)]
       IN  frames' = [frames EXCEPT ![frame_of(c)].put_price =
               IF calls[c].fn = "put_option_price"
               THEN put_price_of(f) ELSE put_price_dividend_of(f)]
    /\ pcs' = [pcs EXCEPT ![c] = "return"]
    /\ UNCHANGED <<calls, results, pricing, notebook>>

\* return put_price
return_put_price(c) ==
    /\ pcs[c] = "return"
    /\ results' = [results EXCEPT ![c] = Return(frames[frame_of(c)].put_price)]
    /\ pcs' = [pcs EXCEPT ![c] = "done"]
    /\ UNCHANGED <<calls, frames, pricing, notebook>>

NextCallers ==
    \E c \in Callers :
        \/ bind_args(c)
        \/ assign_d1(c)
        \/ assign_d2(c)
        \/ assign_put_price(c)
        \/ return_put_price(c)

SpecCallers == InitCallers /\ [][NextCallers]_vars

(***************************************************************************)
(* The notebook that extracts PoetryDB and loads it into PostgreSQL.  Its  *)
(* code cells run in order, each once, against an empty database.          *)
(***************************************************************************)
MaxAuthors == 3
MaxPoems == 2

\* a string is the sequence of its characters; a poem's lines are a list of
\* strings: a one-line poem of one character, or a poem of two lines
Lines(j) == IF j % 2 = 1 THEN << <<"a">> >> ELSE << <<"a", "b">>, <<"c">> >>

\* the poems of one author, in the order the API returns them
PoemLists == {[j \in 1..k |-> Lines(j)] : k \in 1..MaxPoems}

\* the remote database: its list of (distinct) authors and each one's poems
ApiData ==
    UNION {{[authors |-> [i \in 1..n |-> i], poems |-> f] : f \in [1..n -> PoemLists]} :
             n \in 1..MaxAuthors}

\* get_poetry('author'): the dict {'authors': [...]}
get_poetry_authors(data) == [authors |-> data.authors]

\* get_poetry('author', author, 'author,title,lines,linecount'): a list of dicts
get_poetry_author(data, author) ==
    [j \in 1..Len(data.poems[author]) |->
        [author |-> author, title |-> <<author, j>>,
         lines |-> data.poems[author][j],
         linecount |-> Len(data.poems[author][j])]]

\* json_normalize: one row per dict, with a fresh index 0, 1, 2, ...
json_normalize(resp) ==
    [j \in 1..Len(resp) |->
        [index |-> j - 1, author |-> resp[j].author, linecount |-> resp[j].linecount,
         lines |-> resp[j].lines, title |-> resp[j].title]]

\* pd.DataFrame.from_dict(authors): one column, index 0, 1, 2, ...
from_dict(d) == [i \in 1..Len(d.authors) |-> [index |-> i - 1, authors |-> d.authors[i]]]

\* a slip: only the last frame is kept
pd_concat_last(objs) == objs[Len(objs)]

\* pd.concat(poems): the rows of the frames one after the other, each row
\* keeping the index it has in its frame (no ignore_index)
RECURSIVE pd_concat(_)
pd_concat(objs) ==
    IF Len(objs) = 1 THEN objs[1] ELSE objs[1] \o pd_concat(Tail(objs))

\* ' \n '
Sep == <<" ", "\n", " ">>

\* sep.join(x) for a list x of strings
RECURSIVE join(_, _)
join(sep, x) ==
    IF Len(x) = 0 THEN <<>>
    ELSE IF Len(x) = 1 THEN x[1]
    ELSE x[1] \o sep \o join(sep, Tail(x))

\* iterating a string gives its characters as strings of length one
Chars(str) == [i \in 1..Len(str) |-> <<str[i]>>]

\* poems_df['lines'].apply(lambda x: ' \n '.join(x)), for a column of lists
apply_join(df) == [i \in 1..Len(df) |-> [df[i] EXCEPT !.lines = join(Sep, @)]]

\* the same cell run on a column of strings
apply_join_again(df) == [i \in 1..Len(df) |-> [df[i] EXCEPT !.lines = join(Sep, Chars(@))]]

NoFile == [written |-> FALSE, header |-> <<>>, rows |-> <<>>]
NoTable == [exists |-> FALSE, rows |-> <<>>]

\* a slip: only the first row is written
poems_to_csv_head(df) ==
    [written |-> TRUE, header |-> <<"author", "linecount", "lines", "title">>,
     rows |-> <<<<df[1].author, df[1].linecount, df[1].lines, df[1].title>>>>]

\* poems_df.to_csv(..., index=False): the columns without the index
poems_to_csv(df) ==
    [written |-> TRUE, header |-> <<"author", "linecount", "lines", "title">>,
     rows |-> [i \in 1..Len(df) |->
                 <<df[i].author, df[i].linecount, df[i].lines, df[i].title>>]]

\* authors_df.to_csv(..., index=False)
authors_to_csv(df) ==
    [written |-> TRUE, header |-> <<"authors">>,
     rows |-> [i \in 1..Len(df) |-> <<df[i].authors>>]]

\* poems_df.to_sql('poems_df', ..., index_label='id'): a new table whose id
\* column is the index of the frame
poems_to_sql(df) ==
    [exists |-> TRUE,
     rows |-> [i \in 1..Len(df) |->
                 [id |-> df[i].index, author |-> df[i].author,
                  linecount |-> df[i].linecount, lines |-> df[i].lines,
                  title |-> df[i].title]]]

\* authors_df.to_sql('authors_df', ..., index_label='id')
authors_to_sql(df) ==
    [exists |-> TRUE,
     rows |-> [i \in 1..Len(df) |-> [id |-> df[i].index, authors |-> df[i].authors]]]

\* SELECT ... LIMIT 3
Limit3(rows) == IF Len(rows) <= 3 THEN rows ELSE SubSeq(rows, 1, 3)

InitNotebook ==
    /\ fn = "" /\ argv = <<>> /\ outcome = Pending
    /\ NoCallers
    /\ api \in ApiData
    /\ pc = "authors"
    /\ kernel = [authors |-> [authors |-> <<>>], authors_df |-> <<>>, poems |-> <<>>,
                 poems_df |-> <<>>, next |-> 0, joined |-> 0]
    /\ requests = <<>>
    /\ files = [poems_csv |-> NoFile, authors_csv |-> NoFile]
    /\ db = [connected |-> FALSE, schema |-> FALSE, copied |-> {},
             authors |-> NoTable, poems |-> NoTable,
             poems_df |-> NoTable, authors_df |-> NoTable]
    /\ out = [select_authors |-> <<>>, read_sql |-> <<>>]

\* authors = get_poetry('author')
cell_get_authors ==
    /\ pc = "authors"
    /\ kernel' = [kernel EXCEPT !.authors = get_poetry_authors(api)]
    /\ requests' = Append(requests, <<"author">>)
    /\ pc' = "authors_df"
    /\ UNCHANGED <<api, files, db, out, pricing, callers>>

\* authors_df = pd.DataFrame.from_dict(authors)
cell_authors_df ==
    /\ pc = "authors_df"
    /\ kernel' = [kernel EXCEPT !.authors_df = from_dict(kernel.authors)]
    /\ pc' = "poems"
    /\ UNCHANGED <<api, requests, files, db, out, pricing, callers>>

\* poems = []
cell_poems ==
    /\ pc = "poems"
    /\ kernel' = [kernel EXCEPT !.poems = <<>>, !.next = 1]
    /\ pc' = "for"
    /\ UNCHANGED <<api, requests, files, db, out, pricing, callers>>

\* for author in authors['authors']: one request, one frame appended
cell_for_author ==
    /\ pc = "for"
    /\ kernel.next <= Len(kernel.authors.authors)
    /\ LET author == kernel.authors.authors[kernel.next]
           author_poems == get_poetry_author(api, author)
           author_poems_df == json_normalize(author_poems)
       IN  /\ kernel' = [kernel EXCEPT !.poems = Append(@, author_poems_df),
                                       !.next = @ + 1]
           /\ requests' =
                Append(requests, <<"author", author, "author,title,lines,linecount">>)
    /\ UNCHANGED <<api, pc, files, db, out, pricing, callers>>

\* poems_df = pd.concat(poems), after the last author
cell_concat ==
    /\ pc = "for"
    /\ kernel.next > Len(kernel.authors.authors)
    /\ kernel' = [kernel EXCEPT !.poems_df = pd_concat(kernel.poems)]
    /\ pc' = "join"
    /\ UNCHANGED <<api, requests, files, db, out, pricing, callers>>

\* poems_df['lines'] = poems_df['lines'].apply(lambda x: ' \n '.join(x))
cell_join_lines ==
    /\ pc = "join"
    /\ kernel' = [kernel EXCEPT
            !.poems_df = IF kernel.joined = 0 THEN apply_join(@) ELSE apply_join_again(@),
            !.joined = @ + 1]
    /\ pc' = "to_csv"
    /\ UNCHANGED <<api, requests, files, db, out, pricing, callers>>

\* poems_df.to_csv(...); authors_df.to_csv(...)
cell_to_csv ==
    /\ pc = "to_csv"
    /\ files' = [poems_csv |-> poems_to_csv(kernel.poems_df),
                 authors_csv |-> authors_to_csv(kernel.authors_df)]
    /\ pc' = "connect"
    /\ UNCHANGED <<api, kernel, requests, db, out, pricing, callers>>

\* engine = sqlalchemy.create_engine(...); conn = engine.connect()
cell_connect ==
    /\ pc = "connect"
    /\ db' = [db EXCEPT !.connected = TRUE]
    /\ pc' = "create_schema"
    /\ UNCHANGED <<api, kernel, requests, files, out, pricing, callers>>

\* conn.execute('CREATE SCHEMA poetry')
cell_create_schema ==
    /\ pc = "create_schema"
    /\ db.connected /\ ~db.schema
    /\ db' = [db EXCEPT !.schema = TRUE]
    /\ pc' = "create_tables"
    /\ UNCHANGED <<api, kernel, requests, files, out, pricing, callers>>

\* CREATE TABLE poetry.authors (...); CREATE TABLE poetry.poems (...)
cell_create_tables ==
    /\ pc = "create_tables"
    /\ db.schema /\ ~db.authors.exists /\ ~db.poems.exists
    /\ db' = [db EXCEPT !.authors = [exists |-> TRUE, rows |-> <<>>],
                        !.poems = [exists |-> TRUE, rows |-> <<>>]]
    /\ pc' = "to_sql"
    /\ UNCHANGED <<api, kernel, requests, files, out, pricing, callers>>

\* in a psql terminal, outside the notebook's code cells:
\* \copy poetry.authors(author) FROM '...poetrydb_authors.csv' ... CSV HEADER
psql_copy_authors ==
    /\ db.authors.exists /\ files.authors_csv.written
    /\ "authors" \notin db.copied
    /\ db' = [db EXCEPT
            !.authors.rows = @ \o [i \in 1..Len(files.authors_csv.rows) |->
                                     [id |-> Len(@) + i,
                                      author |-> files.authors_csv.rows[i][1]]],
            !.copied = @ \cup {"authors"}]
    /\ UNCHANGED <<api, pc, kernel, requests, files, out, pricing, callers>>

\* \copy poetry.poems(author, linecount, lines, title) FROM '...poetrydb_copy.csv'
psql_copy_poems ==
    /\ db.poems.exists /\ files.poems_csv.written
    /\ "poems" \notin db.copied
    /\ db' = [db EXCEPT
            !.poems.rows = @ \o [i \in 1..Len(files.poems_csv.rows) |->
                                   [id |-> Len(@) + i,
                                    author |-> files.poems_csv.rows[i][1],
                                    linecount |-> files.poems_csv.rows[i][2],
                                    lines |-> files.poems_csv.rows[i][3],
                                    title |-> files.poems_csv.rows[i][4]]],
            !.copied = @ \cup {"poems"}]
    /\ UNCHANGED <<api, pc, kernel, requests, files, out, pricing, callers>>

\* poems_df.to_sql('poems_df', conn, schema='poetry', index_label='id')
\* authors_df.to_sql('authors_df', conn, schema='poetry', index_label='id')
cell_to_sql ==
    /\ pc = "to_sql"
    /\ db.schema /\ ~db.poems_df.exists /\ ~db.authors_df.exists
    /\ db' = [db EXCEPT !.poems_df = poems_to_sql(kernel.poems_df),
                        !.authors_df = authors_to_sql(kernel.authors_df)]
    /\ pc' = "select"
    /\ UNCHANGED <<api, kernel, requests, files, out, pricing, callers>>

\* conn.execute('SELECT author FROM poetry.authors LIMIT 3').fetchall()
cell_select_authors ==
    /\ pc = "select"
    /\ db.authors.exists
    /\ out' = [out EXCEPT !.select_authors =
            Limit3([i \in 1..Len(db.authors.rows) |-> <<db.authors.rows[i].author>>])]
    /\ pc' = "read_sql"
    /\ UNCHANGED <<api, kernel, requests, files, db, pricing, callers>>

\* pd.read_sql_query('SELECT authors FROM poetry.authors_df LIMIT 3', conn)
cell_read_sql ==
    /\ pc = "read_sql"
    /\ db.authors_df.exists
    /\ out' = [out EXCEPT !.read_sql =
            Limit3([i \in 1..Len(db.authors_df.rows) |-> <<db.authors_df.rows[i].authors>>])]
    /\ pc' = "end"
    /\ UNCHANGED <<api, kernel, requests, files, db, pricing, callers>>

NextNotebook ==
    \/ cell_get_authors
    \/ cell_authors_df
    \/ cell_poems
    \/ cell_for_author
    \/ cell_concat
    \/ cell_join_lines
    \/ cell_to_csv
    \/ cell_connect
    \/ cell_create_schema
    \/ cell_create_tables
    \/ psql_copy_authors
    \/ psql_copy_poems
    \/ cell_to_sql
    \/ cell_select_authors
    \/ cell_read_sql

SpecNotebook == InitNotebook /\ [][NextNotebook]_vars

(***************************************************************************)
(* Vocabulary of the properties.                                           *)
(***************************************************************************)
Done == outcome # Pending
Bound5 == fn = "put_option_price" /\ Len(argv) = 5
Bound6 == fn = "put_option_price_div" /\ Len(argv) = 6
Bound == Bound5 \/ Bound6

\* S > 0, K > 0, T > 0, sigma > 0
ValidArgs == argv[1] > 0 /\ argv[2] > 0 /\ argv[3] > 0 /\ argv[5] > 0

\* one thousandth: differences below it are within the resolution of the
\* fixed-point evaluation of a price of this size, differences above it are not
Tol == One \div 1000

\* two finite doubles no further apart than tol units
Near(x, y, tol) == IsFin(x) /\ IsFin(y) /\ Abs(Val(x) - Val(y)) <= tol

Returned == outcome.kind = "return"

\* the contract's formula: q enters d1, and d2 = d1 - sigma sqrt(T)
contract_put(S, K, T, r, sigma, q) ==
    LET d1 == fdiv(fadd(np_log(fdiv(S, K)),
                        fmul(fadd(fsub(r, q), fmul(Half, pow2(sigma))), T)),
                   fmul(sigma, np_sqrt(T)))
        d2 == fsub(d1, fmul(sigma, np_sqrt(T)))
    IN  fsub(fmul(fmul(K, np_exp(fmul(fneg(r), T))), norm_cdf(fneg(d2))),
             fmul(fmul(S, np_exp(fmul(fneg(q), T))), norm_cdf(fneg(d1))))

(***************************************************************************)
(* C1.  For every valid input put_option_price_div returns the contract's  *)
(* formula K e^{-rT} Phi(-d2) - S e^{-qT} Phi(-d1) with                    *)
(* d1 = (ln(S/K) + (r - q + sigma^2/2) T) / (sigma sqrt(T)): the yield q   *)
(* enters d1 and d2.  (Stated up to Tol.)                                  *)
(***************************************************************************)
C1_DivReturnsContractFormula ==
    (Done /\ Bound6 /\ ValidArgs) =>
        /\ Returned
        /\ Near(outcome.val,
                contract_put(Num(argv[1]), Num(argv[2]), Num(argv[3]),
                             Num(argv[4]), Num(argv[5]), Num(argv[6])),
                Tol)

(***************************************************************************)
(* C2.  For every valid input the dividend-adjusted price equals the       *)
(* non-dividend price on the discounted spot S e^{-qT}.  (Up to Tol.)      *)
(***************************************************************************)
C2_DivEqualsPutOnDiscountedSpot ==
    (Done /\ Bound6 /\ ValidArgs) =>
        LET Sq == fmul(Num(argv[1]), np_exp(fmul(fneg(Num(argv[6])), Num(argv[3]))))
            p == put_option_price(Sq, Num(argv[2]), Num(argv[3]),
                                  Num(argv[4]), Num(argv[5]))
        IN  Returned /\ p.kind = "return" /\ Near(outcome.val, p.val, Tol)

(***************************************************************************)
(* C3.  For every valid input with q = 0 put_option_price_div returns      *)
(* exactly what put_option_price returns for the same S, K, T, r, sigma.   *)
(***************************************************************************)
C3_DivAtZeroYieldIsPut ==
    (Done /\ Bound6 /\ ValidArgs /\ argv[6] = 0) =>
        outcome = put_option_price(Num(argv[1]), Num(argv[2]), Num(argv[3]),
                                   Num(argv[4]), Num(argv[5]))

C3_Witness ==
    /\ Done /\ Bound6 /\ ValidArgs /\ argv[6] = 0
    /\ Returned /\ IsFin(outcome.val) /\ Val(outcome.val) > One

(***************************************************************************)
(* C4.  A call with S <= 0, K <= 0, T < 0 or sigma <= 0 fails with         *)
(* InvalidInput and returns no price.                                      *)
(***************************************************************************)
C4_InvalidInputRaised ==
    (Done /\ Bound /\ (argv[1] <= 0 \/ argv[2] <= 0 \/ argv[3] < 0 \/ argv[5] <= 0)) =>
        outcome = Raise("InvalidInput")

(***************************************************************************)
(* C5.  A call with T = 0 and S, K, sigma valid fails with DomainError: it *)
(* returns no value.                                                       *)
(***************************************************************************)
C5_ZeroTenorRaisesDomainError ==
    (Done /\ Bound /\ argv[3] = 0 /\ argv[1] > 0 /\ argv[2] > 0 /\ argv[5] > 0) =>
        outcome = Raise("DomainError")

(***************************************************************************)
(* C6.  Every call either raises or returns a finite number: no call       *)
(* returns NaN or an infinity.                                             *)
(***************************************************************************)
C6_RaisesOrReturnsFinite ==
    Done => (outcome.kind = "raise" \/ (Returned /\ IsFin(outcome.val)))

(***************************************************************************)
(* C7.  For every valid input, negative q included, the returned price is  *)
(* a non-negative number.  (Up to Tol: a price below -Tol is negative      *)
(* beyond the resolution of the evaluation.)                               *)
(***************************************************************************)
C7_PriceNonNegative ==
    (Done /\ Bound /\ ValidArgs) =>
        Returned /\ IsFin(outcome.val) /\ Val(outcome.val) >= -Tol

(***************************************************************************)
(* C8.  Put-call parity of the returned prices: for every valid input the  *)
(* notebook's call minus the returned put is S e^{-qT} - K e^{-rT} (with   *)
(* q = 0 for put_option_price), up to the rounding of the four products.   *)
(***************************************************************************)
ParityGap ==
    LET S == Num(argv[1])
        K == Num(argv[2])
        T == Num(argv[3])
        r == Num(argv[4])
        sigma == Num(argv[5])
        Kd == fmul(K, np_exp(fmul(fneg(r), T)))
    IN  IF Len(argv) = 6
        THEN fsub(fsub(call_price_div(S, K, T, r, sigma, Num(argv[6])), outcome.val),
                  fsub(fmul(S, np_exp(fmul(fneg(Num(argv[6])), T))), Kd))
        ELSE fsub(fsub(call_price(S, K, T, r, sigma), outcome.val), fsub(S, Kd))

C9_YieldDefaultsToZero ==
    (Done /\ fn = "put_option_price_div" /\ Len(argv) = 5 /\ ValidArgs) =>
        outcome = put_option_price_div(Num(argv[1]), Num(argv[2]), Num(argv[3]),
                                       Num(argv[4]), Num(argv[5]), Num(0))

(***************************************************************************)
(* C10.  Monotonicity in the strike: for every valid input and every       *)
(* larger strike K2, the other parameters fixed, the price at K2 is        *)
(* greater than the returned price.  (Up to Tol: a price at K2 more than   *)
(* Tol below the returned price is smaller beyond the resolution.)         *)
(***************************************************************************)
PriceAtStrike(K2) ==
    IF Len(argv) = 6
    THEN put_option_price_div(Num(argv[1]), Num(K2), Num(argv[3]),
                              Num(argv[4]), Num(argv[5]), Num(argv[6]))
    ELSE put_option_price(Num(argv[1]), Num(K2), Num(argv[3]),
                          Num(argv[4]), Num(argv[5]))

C10_PriceIncreasesWithStrike ==
    (Done /\ Bound /\ ValidArgs) =>
        \A K2 \in Strikes :
            K2 > argv[2] =>
                /\ Returned /\ IsFin(outcome.val)
                /\ PriceAtStrike(K2).kind = "return"
                /\ IsFin(PriceAtStrike(K2).val)
                /\ Val(PriceAtStrike(K2).val) + Tol > Val(outcome.val)

(***************************************************************************)
(* C11.  The worked example: for S = 100, K = 100, T = 1, r = 0.05,        *)
(* sigma = 0.2 (and q = 0 for put_option_price_div) the returned price is  *)
(* within 0.01 of 5.57.                                                    *)
(***************************************************************************)
ExampleArgs ==
    /\ argv[1] = 100 * One /\ argv[2] = 100 * One /\ argv[3] = One
    /\ argv[4] = 5 * (One \div 100) /\ argv[5] = One \div 5
    /\ Len(argv) = 6 => argv[6] = 0

C11_ExamplePrice ==
    (Done /\ Bound /\ ExampleArgs) =>
        Returned /\ Near(outcome.val, Fin(557 * (One \div 100)), One \div 100)

C11_Witness == Done /\ Bound5 /\ ExampleArgs /\ Returned

(***************************************************************************)
(* C12.  As T tends to 0 from above, the other parameters valid and fixed, *)
(* the returned price tends to max(K - S, 0): at the short tenors the      *)
(* price is within K sqrt(T) / 5 of max(K - S, 0), a distance that shrinks *)
(* tenfold when the tenor shrinks a hundredfold.                           *)
(***************************************************************************)
Intrinsic == IF argv[2] > argv[1] THEN argv[2] - argv[1] ELSE 0

C12_ConvergesToIntrinsic ==
    (Done /\ Bound /\ ValidArgs /\ argv[3] \in ShortTenors) =>
        /\ Returned
        /\ Near(outcome.val, Fin(Intrinsic), FxMul(argv[2], FxSqrt(argv[3])) \div 5)

C12_Witness ==
    /\ Done /\ Bound5 /\ ValidArgs /\ argv[3] = One \div 10000 /\ argv[2] > argv[1]
    /\ Returned /\ Near(outcome.val, Fin(Intrinsic), One \div 5)

(***************************************************************************)
(* C13.  The pricing functions are pure and memoryless: two calls with     *)
(* equal arguments return equal results, whatever other calls ran before,  *)
(* between or during them.                                                 *)
(***************************************************************************)
C13_EqualArgumentsEqualResults ==
    \A c1 \in Callers, c2 \in Callers :
        (pcs[c1] = "done" /\ pcs[c2] = "done" /\ calls[c1] = calls[c2]) =>
            results[c1] = results[c2]

C13_Witness ==
    /\ pcs["a"] = "done" /\ pcs["c"] = "done" /\ pcs["b"] = "put_price"
    /\ calls["a"] = calls["c"] /\ calls["b"] # calls["a"]
    /\ results["a"].kind = "return" /\ results["c"].kind = "return"

(***************************************************************************)
(* C14.  Any interleaving of concurrent calls gives each caller the result *)
(* its call gives when it runs alone.                                      *)
(***************************************************************************)
Alone(req) ==
    IF req.fn = "put_option_price"
    THEN put_option_price(Num(req.argv[1]), Num(req.argv[2]), Num(req.argv[3]),
                          Num(req.argv[4]), Num(req.argv[5]))
    ELSE put_option_price_div(Num(req.argv[1]), Num(req.argv[2]), Num(req.argv[3]),
                              Num(req.argv[4]), Num(req.argv[5]), Num(req.argv[6]))

C14_InterleavedEqualsAlone ==
    \A c \in Callers : pcs[c] = "done" => results[c] = Alone(calls[c])

C14_Witness ==
    /\ pcs["a"] = "done" /\ results["a"].kind = "return"
    /\ pcs["b"] = "d2" /\ pcs["c"] = "put_price"
    /\ calls["a"] # calls["b"] /\ calls["b"] # calls["c"] /\ calls["a"] # calls["c"]

(***************************************************************************)
(* C18.  In all four pricing functions the separately computed             *)
(* d2 = (ln(S/K) + (r - sigma^2/2) T) / (sigma sqrt(T)) equals             *)
(* d1 - sigma sqrt(T), for every input with sigma > 0 and T > 0 on which   *)
(* d1 and d2 are numbers.  (Up to the rounding of the two quotients and of *)
(* the two numerators, which the division by sigma sqrt(T) magnifies.)     *)
(***************************************************************************)
BoundSym5 == fn = "put_option_price_sym" /\ Len(argv) = 5
BoundSym6 == fn = "put_option_price_div_sym" /\ Len(argv) = 6
BoundAny == Bound \/ BoundSym5 \/ BoundSym6

\* d1 and d2 as the called function computes them
D1 ==
    LET S == float(Num(argv[1]))
        K == Num(argv[2])
        T == Num(argv[3])
        r == Num(argv[4])
        sigma == Num(argv[5])
    IN  CASE fn = "put_option_price" -> put_d1(S, K, T, r, sigma)
          [] fn = "put_option_price_div" -> div_d1(S, K, T, r, sigma, Num(argv[6]))
          [] fn = "put_option_price_sym" -> sym_d1(S, K, T, r, sigma)
          [] fn = "put_option_price_div_sym" ->
                 div_sym_d1(S, K, T, r, sigma, Num(argv[6]))

D2 ==
    LET S == float(Num(argv[1]))
        K == Num(argv[2])
        T == Num(argv[3])
        r == Num(argv[4])
        sigma == Num(argv[5])
    IN  CASE fn = "put_option_price" -> put_d2(S, K, T, r, sigma)
          [] fn = "put_option_price_div" -> div_d2(S, K, T, r, sigma, Num(argv[6]))
          [] fn = "put_option_price_sym" -> sym_d2(S, K, T, r, sigma)
          [] fn = "put_option_price_div_sym" ->
                 div_sym_d2(S, K, T, r, sigma, Num(argv[6]))

SigmaRootT == fmul(Num(argv[5]), np_sqrt(Num(argv[3])))

\* two units for the quotients and two units of the numerators over sigma sqrt(T)
RoundOff == 2 + FxDiv(2, Val(SigmaRootT))

C19_SymbolicEqualsNumeric ==
    /\ (Done /\ BoundSym5 /\ ValidArgs) =>
          /\ D1 = put_d1(float(Num(argv[1])), Num(argv[2]), Num(argv[3]),
                         Num(argv[4]), Num(argv[5]))
          /\ D2 = put_d2(float(Num(argv[1])), Num(argv[2]), Num(argv[3]),
                         Num(argv[4]), Num(argv[5]))
          /\ outcome = put_option_price(Num(argv[1]), Num(argv[2]), Num(argv[3]),
                                        Num(argv[4]), Num(argv[5]))
    /\ (Done /\ BoundSym6 /\ ValidArgs) =>
          /\ D1 = div_d1(float(Num(argv[1])), Num(argv[2]), Num(argv[3]),
                         Num(argv[4]), Num(argv[5]), Num(argv[6]))
          /\ D2 = div_d2(float(Num(argv[1])), Num(argv[2]), Num(argv[3]),
                         Num(argv[4]), Num(argv[5]), Num(argv[6]))
          /\ outcome = put_option_price_div(Num(argv[1]), Num(argv[2]), Num(argv[3]),
                                            Num(argv[4]), Num(argv[5]), Num(argv[6]))

C19_Witness ==
    /\ Done /\ BoundSym5 /\ ValidArgs /\ Returned
    /\ IsFin(outcome.val) /\ Val(outcome.val) > One

(***************************************************************************)
(* C15.  to_sql(..., index_label='id') gives each table it creates a       *)
(* sequential id column: in poetry.poems_df and in poetry.authors_df the   *)
(* id values run 0, 1, 2, ... in row order (so they are distinct),         *)
(* although poems_df is the concatenation of one frame per author.         *)
(***************************************************************************)
Sequential(rows) == \A i \in 1..Len(rows) : rows[i].id = i - 1

C15_IdsSequential ==
    (db.poems_df.exists /\ db.authors_df.exists) =>
        Sequential(db.poems_df.rows) /\ Sequential(db.authors_df.rows)

(***************************************************************************)
(* C16.  The extraction requests the API once for the list of authors,     *)
(* then once per listed author in list order, never twice for the same     *)
(* author; after the loop poems_df holds the rows of every author, grouped *)
(* by author in list order, no row dropped or duplicated.                  *)
(***************************************************************************)
ExpectedRequests ==
    <<<<"author">>>> \o
    [i \in 1..Len(api.authors) |->
        <<"author", api.authors[i], "author,title,lines,linecount">>]

IsPrefix(s, t) == Len(s) <= Len(t) /\ s = SubSeq(t, 1, Len(s))

\* author and title of each row, in row order
RowKeys(df) == [i \in 1..Len(df) |-> <<df[i].author, df[i].title>>]

\* author and title of every poem of the first n listed authors
RECURSIVE ApiKeys(_)
ApiKeys(n) ==
    IF n = 0 THEN <<>>
    ELSE ApiKeys(n - 1) \o
         [j \in 1..Len(api.poems[api.authors[n]]) |->
             <<api.authors[n], <<api.authors[n], j>>>>]

AfterLoop == pc \notin {"authors", "authors_df", "poems", "for"}

C16_OneRequestPerAuthorInOrder ==
    /\ IsPrefix(requests, ExpectedRequests)
    /\ \A i \in 1..Len(requests), j \in 1..Len(requests) :
          i # j => requests[i] # requests[j]
    /\ AfterLoop =>
          /\ requests = ExpectedRequests
          /\ RowKeys(kernel.poems_df) = ApiKeys(Len(api.authors))

C16_Witness ==
    /\ pc = "join" /\ Len(api.authors) = 3 /\ Len(requests) = 4
    /\ Len(kernel.poems_df) >= 4
    /\ RowKeys(kernel.poems_df) = ApiKeys(3)

(***************************************************************************)
(* C17.  After the notebook's code cells have run in order from an empty   *)
(* database, SELECT author FROM poetry.authors LIMIT 3 returns the first   *)
(* three authors: a code cell has put the authors into poetry.authors.     *)
(***************************************************************************)
OnlyCodeCells == db.copied = {}

C17_SelectReturnsFirstAuthors ==
    (pc \in {"read_sql", "end"} /\ OnlyCodeCells) =>
        out.select_authors = Limit3([i \in 1..Len(api.authors) |-> <<api.authors[i]>>])

(***************************************************************************)
(* C20.  Every poem's list of lines is joined with ' \n ' exactly once,    *)
(* before the CSV export and before the to_sql load, so the file and the   *)
(* table hold the joined text and agree row for row; the join is not       *)
(* idempotent: run again on the joined column it changes every text of     *)
(* more than one character.                                                *)
(***************************************************************************)
\* the joined text of the poem a row stands for
JoinedText(author, title) == join(Sep, api.poems[author][title[2]])

C20_JoinedOnceBeforeExportAndLoad ==
    /\ (files.poems_csv.written \/ db.poems_df.exists) => kernel.joined = 1
    /\ files.poems_csv.written =>
          /\ Len(files.poems_csv.rows) = Len(kernel.poems_df)
          /\ \A i \in 1..Len(files.poems_csv.rows) :
                files.poems_csv.rows[i][3] =
                    JoinedText(files.poems_csv.rows[i][1], files.poems_csv.rows[i][4])
    /\ db.poems_df.exists =>
          /\ Len(db.poems_df.rows) = Len(files.poems_csv.rows)
          /\ \A i \in 1..Len(db.poems_df.rows) :
                /\ db.poems_df.rows[i].lines = files.poems_csv.rows[i][3]
                /\ db.poems_df.rows[i].author = files.poems_csv.rows[i][1]
                /\ db.poems_df.rows[i].title = files.poems_csv.rows[i][4]
    /\ kernel.joined = 1 =>
          \A i \in 1..Len(kernel.poems_df) :
              Len(kernel.poems_df[i].lines) > 1 =>
                  apply_join_again(kernel.poems_df)[i].lines # kernel.poems_df[i].lines

C20_Witness ==
    /\ pc = "end" /\ files.poems_csv.written /\ db.poems_df.exists
    /\ Len(db.poems_df.rows) >= 3
    /\ \E i \in 1..Len(db.poems_df.rows) :
          /\ db.poems_df.rows[i].lines = <<"a", "b", " ", "\n", " ", "c">>
          /\ files.poems_csv.rows[i][3] = db.poems_df.rows[i].lines
          /\ apply_join_again(kernel.poems_df)[i].lines # kernel.poems_df[i].lines

=============================================================================
